---- MODULE Spec2Model ----
(***************************************************************************)
(* Model of skills/twitter/reply_tweet.py: the TwitterReplyTweet tool.     *)
(*                                                                         *)
(* The tool validates its input against TwitterReplyTweetInput, and _run   *)
(* then (1) consults the rate limiter unless key authentication is used,   *)
(* (2) asks the auth provider for a client, (3) calls create_tweet and     *)
(* (4) interprets the response; every Exception raised inside the try      *)
(* block becomes an error string.  _arun delegates to _run.                *)
(*                                                                         *)
(* Python values are tagged records, Python strings are TLA+ strings.      *)
(* The collaborators (auth provider, platform client) are inputs of each   *)
(* invocation; the rate limiter and the error-prefix helper live in the    *)
(* base class TwitterBaseTool and are modelled from the specification.     *)
(***************************************************************************)
EXTENDS Integers, Sequences, FiniteSets, TLC

VARIABLES
    use_key,      \* self.twitter.use_key
    username,     \* the acting user's identity, "" when not available
    rate_limit,   \* the limiter's window state: None or [count, reset_time]
    now,          \* the clock, in minutes
    tool,         \* the tool's own fields (name, description, args_schema)
    invocations,  \* number of requests made so far
    last          \* log of the latest invocation

vars == <<use_key, username, rate_limit, now, tool, invocations, last>>

-----------------------------------------------------------------------------
(* Program constants *)

MaxRequests == 48
Interval == 1440
MaxTextLen == 280

(* Bounds of the model *)

TickMinutes == 720
MaxNow == 1440
MaxInvocations == 3

-----------------------------------------------------------------------------
(* Python values *)

NoneV == [t |-> "none"]
StrV(s) == [t |-> "str", s |-> s]
IntV(n) == [t |-> "int", n |-> n]
DictV(d) == [t |-> "dict", d |-> d]
ListV(l) == [t |-> "list", items |-> l]
ClientV(truthy) == [t |-> "client", truthy |-> truthy]
EmptyMap == [k \in {} |-> NoneV]

(* The outcome of a call: a returned value or a raised Exception(m). *)
Ret(v) == [k |-> "ret", v |-> v]
Raise(m) == [k |-> "raise", m |-> m]

Digit(d) == CASE d = 0 -> "0" [] d = 1 -> "1" [] d = 2 -> "2" [] d = 3 -> "3"
              [] d = 4 -> "4" [] d = 5 -> "5" [] d = 6 -> "6" [] d = 7 -> "7"
              [] d = 8 -> "8" [] d = 9 -> "9"

RECURSIVE IntToStr(_)
IntToStr(n) == IF n < 10 THEN Digit(n) ELSE IntToStr(n \div 10) \o Digit(n % 10)

(* str(v), as the f-string of line 67 applies it to reply_id *)
PyStr(v) ==
    CASE v.t = "str" -> v.s
      [] v.t = "int" -> IntToStr(v.n)
      [] v.t = "none" -> "None"

(* bool(v), as `not client` of line 55 applies it *)
Truthy(v) ==
    CASE v.t = "none" -> FALSE
      [] v.t = "client" -> v.truthy

TypeName(v) ==
    CASE v.t = "none" -> "NoneType"
      [] v.t = "int" -> "int"
      [] v.t = "client" -> "Client"

(* `key in c` for a string key (line 65) *)
PyIn(key, c) ==
    CASE c.t = "dict" -> Ret(key \in DOMAIN c.d)
      [] c.t = "list" -> Ret(\E i \in 1..Len(c.items) : c.items[i] = StrV(key))
      [] OTHER -> Raise("argument of type '" \o TypeName(c) \o "' is not iterable")

(* `c[key]` for a string key (lines 65-66) *)
PyGetItem(c, key) ==
    CASE c.t = "dict" -> IF key \in DOMAIN c.d THEN Ret(c.d[key])
                         ELSE Raise("'" \o key \o "'")
      [] c.t = "list" -> Raise("list indices must be integers or slices, not str")
      [] OTHER -> Raise("'" \o TypeName(c) \o "' object is not subscriptable")

-----------------------------------------------------------------------------
(* Collaborators defined in the base class TwitterBaseTool *)

LimitMessage == "Rate limit exceeded"

(* RateLimiter.check(max_requests, window_minutes): the window state is a   *)
(* count of requests and the time the window ends.  Inside a live window    *)
(* the caller is limited once count >= max_requests, else the request is    *)
(* counted; outside it a new window is opened with this request as first.   *)
CheckRateLimit(state, time, max_requests, interval) ==
    IF state # NoneV /\ state.reset_time > time
    THEN IF state.count >= max_requests
         THEN [limited |-> TRUE, error |-> StrV(LimitMessage), state |-> state]
         ELSE [limited |-> FALSE, error |-> NoneV,
               state |-> [state EXCEPT !.count = @ + 1]]
    ELSE [limited |-> FALSE, error |-> NoneV,
          state |-> [t |-> "window", count |-> 1, reset_time |-> time + interval]]

(* _get_error_with_username: the message, with the acting user's identity   *)
(* in front of it where one is available.                                   *)
GetErrorWithUsername(user, msg) ==
    IF user = "" THEN msg ELSE "[@" \o user \o "] " \o msg

-----------------------------------------------------------------------------
(* The tool *)

ToolFields ==
    [name |-> "twitter_reply_tweet",
     description |-> "Reply to an existing tweet on Twitter",
     args_schema |-> "TwitterReplyTweetInput"]

(* Mutant: the schema without max_length on text. *)
ValidateInputNoLimit(tweet_id, text) == TRUE

(* TwitterReplyTweetInput: both fields are strings, text has max_length. *)
ValidateInput(tweet_id, text) == Len(text) <= MaxTextLen

CallCheck(max_requests, interval) ==
    [op |-> "check_rate_limit", max_requests |-> max_requests, interval |-> interval]
CallGetClient == [op |-> "get_client"]
(* Mutant: text and tweet_id passed in each other's place. *)
CallCreateSwapped(text, user_auth, tweet_id) ==
    [op |-> "create_tweet", text |-> tweet_id, user_auth |-> user_auth,
     in_reply_to_tweet_id |-> text]

CallCreate(text, user_auth, tweet_id) ==
    [op |-> "create_tweet", text |-> text, user_auth |-> user_auth,
     in_reply_to_tweet_id |-> tweet_id]

(* Mutant: the success string goes through _get_error_with_username too. *)
InterpretResponseWithUser(user, response) ==
    LET hasData == PyIn("data", response) IN
    IF hasData.k = "raise" THEN hasData
    ELSE IF ~hasData.v
    THEN Ret(GetErrorWithUsername(user, "Failed to post reply tweet."))
    ELSE LET data == PyGetItem(response, "data") IN
         IF data.k = "raise" THEN data
         ELSE LET hasId == PyIn("id", data.v) IN
              IF hasId.k = "raise" THEN hasId
              ELSE IF ~hasId.v
              THEN Ret(GetErrorWithUsername(user, "Failed to post reply tweet."))
              ELSE LET reply_id == PyGetItem(data.v, "id") IN
                   IF reply_id.k = "raise" THEN reply_id
                   ELSE Ret(GetErrorWithUsername(user,
                            "Reply posted successfully! Reply Tweet ID: "
                            \o PyStr(reply_id.v)))

(* Mutant: only `"data" in response` is tested before data.id is read. *)
InterpretResponseNoIdCheck(user, response) ==
    LET hasData == PyIn("data", response) IN
    IF hasData.k = "raise" THEN hasData
    ELSE IF ~hasData.v
    THEN Ret(GetErrorWithUsername(user, "Failed to post reply tweet."))
    ELSE LET data == PyGetItem(response, "data") IN
         IF data.k = "raise" THEN data
         ELSE LET reply_id == PyGetItem(data.v, "id") IN
              IF reply_id.k = "raise" THEN reply_id
              ELSE Ret("Reply posted successfully! Reply Tweet ID: "
                       \o PyStr(reply_id.v))

(* Lines 65-68: the outcome of interpreting a returned response. *)
InterpretResponse(user, response) ==
    LET hasData == PyIn("data", response) IN
    IF hasData.k = "raise" THEN hasData
    ELSE IF ~hasData.v
    THEN Ret(GetErrorWithUsername(user, "Failed to post reply tweet."))
    ELSE LET data == PyGetItem(response, "data") IN
         IF data.k = "raise" THEN data
         ELSE LET hasId == PyIn("id", data.v) IN
              IF hasId.k = "raise" THEN hasId
              ELSE IF ~hasId.v
              THEN Ret(GetErrorWithUsername(user, "Failed to post reply tweet."))
              ELSE LET reply_id == PyGetItem(data.v, "id") IN
                   IF reply_id.k = "raise" THEN reply_id
                   ELSE Ret("Reply posted successfully! Reply Tweet ID: "
                            \o PyStr(reply_id.v))

(* Mutant: the client is tested with `is None` instead of `not client`. *)
FromGetClientIsNone(self, tweet_id, text, env, calls, state) ==
    LET c1 == Append(calls, CallGetClient) IN
    IF env.client.k = "raise"
    THEN [out |-> env.client, calls |-> c1, rate_limit |-> state]
    ELSE IF env.client.v = NoneV
    THEN [out |-> Ret(GetErrorWithUsername(self.username,
                    "Failed to get Twitter client. Please check your authentication.")),
          calls |-> c1, rate_limit |-> state]
    ELSE LET c2 == Append(c1, CallCreate(text, self.use_key, tweet_id)) IN
         IF env.create.k = "raise"
         THEN [out |-> env.create, calls |-> c2, rate_limit |-> state]
         ELSE [out |-> InterpretResponse(self.username, env.create.v),
               calls |-> c2, rate_limit |-> state]

(* Mutant: create_tweet is tried a second time after it raises. *)
FromGetClientRetry(self, tweet_id, text, env, calls, state) ==
    LET c1 == Append(calls, CallGetClient) IN
    IF env.client.k = "raise"
    THEN [out |-> env.client, calls |-> c1, rate_limit |-> state]
    ELSE IF ~Truthy(env.client.v)
    THEN [out |-> Ret(GetErrorWithUsername(self.username,
                    "Failed to get Twitter client. Please check your authentication.")),
          calls |-> c1, rate_limit |-> state]
    ELSE LET c2 == Append(c1, CallCreate(text, self.use_key, tweet_id)) IN
         IF env.create.k = "raise"
         THEN [out |-> env.create,
               calls |-> Append(c2, CallCreate(text, self.use_key, tweet_id)),
               rate_limit |-> state]
         ELSE [out |-> InterpretResponse(self.username, env.create.v),
               calls |-> c2, rate_limit |-> state]

(* Lines 54-68: from get_client on.  env.client and env.create are what     *)
(* get_client and create_tweet do when called.                              *)
FromGetClient(self, tweet_id, text, env, calls, state) ==
    LET c1 == Append(calls, CallGetClient) IN
    IF env.client.k = "raise"
    THEN [out |-> env.client, calls |-> c1, rate_limit |-> state]
    ELSE IF ~Truthy(env.client.v)
    THEN [out |-> Ret(GetErrorWithUsername(self.username,
                    "Failed to get Twitter client. Please check your authentication.")),
          calls |-> c1, rate_limit |-> state]
    ELSE LET c2 == Append(c1, CallCreate(text, self.use_key, tweet_id)) IN
         IF env.create.k = "raise"
         THEN [out |-> env.create, calls |-> c2, rate_limit |-> state]
         ELSE [out |-> InterpretResponse(self.username, env.create.v),
               calls |-> c2, rate_limit |-> state]

(* Mutant: a limited caller is not turned away. *)
TryBodyNoShortCircuit(self, tweet_id, text, env) ==
    IF ~self.use_key
    THEN LET chk == CheckRateLimit(self.rate_limit, self.now, MaxRequests, Interval)
             c0 == <<CallCheck(MaxRequests, Interval)>>
         IN  FromGetClient(self, tweet_id, text, env, c0, chk.state)
    ELSE FromGetClient(self, tweet_id, text, env, <<>>, self.rate_limit)

(* Mutant: the limiter is consulted in both authentication modes. *)
TryBodyAlwaysCheck(self, tweet_id, text, env) ==
    LET chk == CheckRateLimit(self.rate_limit, self.now, MaxRequests, Interval)
        c0 == <<CallCheck(MaxRequests, Interval)>>
    IN  IF chk.limited
        THEN [out |-> Ret(GetErrorWithUsername(self.username,
                        "Error replying to tweet: " \o PyStr(chk.error))),
              calls |-> c0, rate_limit |-> chk.state]
        ELSE FromGetClient(self, tweet_id, text, env, c0, chk.state)

(* Lines 44-68: the body of the try block. *)
TryBody(self, tweet_id, text, env) ==
    IF ~self.use_key
    THEN LET chk == CheckRateLimit(self.rate_limit, self.now, MaxRequests, Interval)
             c0 == <<CallCheck(MaxRequests, Interval)>>
         IN  IF chk.limited
             THEN [out |-> Ret(GetErrorWithUsername(self.username,
                             "Error replying to tweet: " \o PyStr(chk.error))),
                   calls |-> c0, rate_limit |-> chk.state]
             ELSE FromGetClient(self, tweet_id, text, env, c0, chk.state)
    ELSE FromGetClient(self, tweet_id, text, env, <<>>, self.rate_limit)

(* Mutant: no except clause. *)
RunNoCatch(self, tweet_id, text, env) == TryBody(self, tweet_id, text, env)

(* Lines 43-71: _run, the try block and its except clause. *)
Run(self, tweet_id, text, env) ==
    LET body == TryBody(self, tweet_id, text, env) IN
    IF body.out.k = "raise"
    THEN [body EXCEPT !.out = Ret(GetErrorWithUsername(self.username,
                          "Error posting reply tweet: " \o body.out.m))]
    ELSE body

(* Mutant: _arun passes its arguments in the wrong order. *)
ARunSwapped(self, tweet_id, text, env) == Run(self, text, tweet_id, env)

(* Lines 73-78: _arun calls _run with its own arguments. *)
ARun(self, tweet_id, text, env) == Run(self, tweet_id, text, env)

-----------------------------------------------------------------------------
(* Inputs of an invocation *)

RECURSIVE Repeat(_, _)
Repeat(c, n) ==
    IF n = 0 THEN ""
    ELSE LET half == Repeat(c, n \div 2)
         IN  IF n % 2 = 0 THEN half \o half ELSE half \o half \o c

TweetIds == {"", "1001"}
Texts == {Repeat("x", MaxTextLen), Repeat("x", MaxTextLen + 1)}
Usernames == {"", "alice"}

Responses ==
    { NoneV,                                              \* not a mapping
      DictV(EmptyMap),                                    \* {}
      DictV([errors |-> ListV(<<>>)]),                    \* no data field
      DictV([data |-> NoneV]),                            \* data is null
      DictV([data |-> IntV(7)]),                          \* data is a number
      DictV([data |-> ListV(<<>>)]),                      \* data is []
      DictV([data |-> ListV(<<StrV("id")>>)]),            \* data is ["id"]
      DictV([data |-> DictV([text |-> StrV("hi")])]),     \* data without id
      DictV([data |-> DictV([id |-> StrV("123")])]),
      DictV([data |-> DictV([id |-> IntV(9041)])]) }

NotCalled == Raise("not called")

(* What get_client and create_tweet do in one invocation.  create_tweet is  *)
(* reached only with a truthy client, so it is varied only then.            *)
Envs ==
    { [client |-> c, create |-> NotCalled] :
        c \in {Ret(NoneV), Ret(ClientV(FALSE)), Raise("auth expired")} }
    \cup
    { [client |-> Ret(ClientV(TRUE)), create |-> x] :
        x \in {Raise("timeout")} \cup {Ret(r) : r \in Responses} }

-----------------------------------------------------------------------------
(* State machine *)

NoInvocation == [entry |-> "none"]

Init ==
    /\ use_key \in BOOLEAN
    /\ username \in Usernames
    /\ rate_limit \in {NoneV}
          \cup {[t |-> "window", count |-> c, reset_time |-> Interval] :
                  c \in {MaxRequests - 1, MaxRequests}}
    /\ now = 0
    /\ tool = ToolFields
    /\ invocations = 0
    /\ last = NoInvocation

(* One request to the tool through entry point `entry`: the framework       *)
(* builds the input from args_schema and, when that validates, calls the    *)
(* entry point.                                                             *)
Invoke(entry, tweet_id, text, env) ==
    LET self == [use_key |-> use_key, username |-> username,
                 rate_limit |-> rate_limit, now |-> now]
        r == IF entry = "_run" THEN Run(self, tweet_id, text, env)
                               ELSE ARun(self, tweet_id, text, env)
        req == [entry |-> entry, tweet_id |-> tweet_id, text |-> text,
                self |-> self, env |-> env]
    IN  /\ invocations < MaxInvocations
        /\ invocations' = invocations + 1
        /\ IF ~ValidateInput(tweet_id, text)
           THEN /\ last' = [req |-> req, valid |-> FALSE, entry |-> entry,
                            out |-> Raise("ValidationError"), calls |-> <<>>]
                /\ UNCHANGED rate_limit
           ELSE /\ last' = [req |-> req, valid |-> TRUE, entry |-> entry,
                            out |-> r.out, calls |-> r.calls]
                /\ rate_limit' = r.rate_limit
        /\ UNCHANGED <<use_key, username, now, tool>>

InvokeRun ==
    \E tweet_id \in TweetIds, text \in Texts, env \in Envs :
        Invoke("_run", tweet_id, text, env)

InvokeARun ==
    \E tweet_id \in TweetIds, text \in Texts, env \in Envs :
        Invoke("_arun", tweet_id, text, env)

(* Time passes. *)
Tick ==
    /\ now + TickMinutes <= MaxNow
    /\ now' = now + TickMinutes
    /\ UNCHANGED <<use_key, username, rate_limit, tool, invocations, last>>

Next == InvokeRun \/ InvokeARun \/ Tick

Spec == Init /\ [][Next]_vars

-----------------------------------------------------------------------------
(* Vocabulary of the properties, all about the latest invocation *)

Invoked == last.entry # "none"
Executed == Invoked /\ last.valid
Pre == last.req.self

CountOf(op) == Cardinality({i \in 1..Len(last.calls) : last.calls[i].op = op})
Called(op) == CountOf(op) > 0

(* The limiter's state before the invocation holds MaxRequests or more      *)
(* requests in a window that is still open.                                 *)
PreLimited ==
    /\ Pre.rate_limit # NoneV
    /\ Pre.rate_limit.reset_time > Pre.now
    /\ Pre.rate_limit.count >= 48

ShortCircuitedByRateLimit == ~Pre.use_key /\ PreLimited

(* s contains m: s is m with one of the error contexts in front of it. *)
Contexts ==
    {""} \cup
    { u \o c : u \in {"", "[@alice] "},
               c \in {"", "Error replying to tweet: ", "Error posting reply tweet: "} }
Contains(s, m) == \E p \in Contexts : s = p \o m

RateLimitStrings ==
    { "Error replying to tweet: Rate limit exceeded",
      "[@alice] Error replying to tweet: Rate limit exceeded" }

(* C1: an invocation under non-key authentication that finds the caller     *)
(* limited (48 or more requests in the open 1440-minute window, checked     *)
(* with max_requests = 48 and interval = 1440) returns the rate-limit error *)
(* string, which embeds the limiter's message, and calls neither get_client *)
(* nor create_tweet.                                                        *)
Thm_C1 ==
    (Executed /\ ShortCircuitedByRateLimit) =>
        /\ last.calls = <<[op |-> "check_rate_limit", max_requests |-> 48,
                           interval |-> 1440]>>
        /\ last.out.k = "ret"
        /\ last.out.v \in RateLimitStrings
        /\ Contains(last.out.v, LimitMessage)
        /\ (Pre.username # "" => last.out.v = "[@alice] Error replying to tweet: Rate limit exceeded")
        /\ ~Called("get_client")
        /\ ~Called("create_tweet")

Wit_C1 ==
    /\ Executed
    /\ ShortCircuitedByRateLimit
    /\ last.out = Ret("Error replying to tweet: Rate limit exceeded")
    /\ last.calls = <<CallCheck(MaxRequests, Interval)>>

(* C2: under key authentication the limiter is never consulted, whatever    *)
(* the earlier call volume: the first collaborator call is get_client, the  *)
(* limiter's state is left as it was, and the result is never the           *)
(* rate-limit error string.                                                 *)
Thm_C2 ==
    (Executed /\ Pre.use_key) =>
        /\ ~Called("check_rate_limit")
        /\ Len(last.calls) >= 1
        /\ last.calls[1] = [op |-> "get_client"]
        /\ rate_limit = Pre.rate_limit
        /\ ~(last.out.k = "ret" /\ last.out.v \in RateLimitStrings)

Wit_C2 ==
    /\ Executed
    /\ Pre.use_key
    /\ PreLimited
    /\ Called("create_tweet")

(* C3: when the invocation is not stopped by the rate limit and get_client  *)
(* returns a falsy client, the result is the "Failed to get Twitter client" *)
(* error string and create_tweet is not called.                             *)
Thm_C3 ==
    (/\ Executed
     /\ ~ShortCircuitedByRateLimit
     /\ last.req.env.client \in {Ret(NoneV), Ret(ClientV(FALSE))}) =>
        /\ last.out.k = "ret"
        /\ last.out.v \in
             { u \o "Failed to get Twitter client. Please check your authentication." :
                 u \in {"", "[@alice] "} }
        /\ Called("get_client")
        /\ ~Called("create_tweet")

Wit_C3 ==
    /\ Executed
    /\ ~Pre.use_key
    /\ ~PreLimited
    /\ last.req.env.client = Ret(ClientV(FALSE))
    /\ last.out = Ret("Failed to get Twitter client. Please check your authentication.")

(* The response create_tweet returned, when it was called and returned. *)
Returned == Executed /\ Called("create_tweet") /\ last.req.env.create.k = "ret"
Response == last.req.env.create.v

SuccessStrings ==
    { "Reply posted successfully! Reply Tweet ID: 123",
      "Reply posted successfully! Reply Tweet ID: 9041" }
GenericFailureStrings ==
    { u \o "Failed to post reply tweet." : u \in {"", "[@alice] "} }

(* C4: a response holding the nested identifier data.id = id gives exactly  *)
(* "Reply posted successfully! Reply Tweet ID: <id>", with nothing in front *)
(* of it: "123" gives "... Reply Tweet ID: 123", 9041 gives "... 9041".     *)
Thm_C4 ==
    Returned =>
        /\ (Response = DictV([data |-> DictV([id |-> StrV("123")])]) =>
              last.out = Ret("Reply posted successfully! Reply Tweet ID: 123"))
        /\ (Response = DictV([data |-> DictV([id |-> IntV(9041)])]) =>
              last.out = Ret("Reply posted successfully! Reply Tweet ID: 9041"))

Wit_C4 ==
    /\ Returned
    /\ Pre.username = "alice"
    /\ Response = DictV([data |-> DictV([id |-> StrV("123")])])
    /\ last.out = Ret("Reply posted successfully! Reply Tweet ID: 123")

Thm_C6 ==
    Invoked =>
        /\ (Len(last.req.text) > 280 =>
              /\ ~last.valid
              /\ last.out = Raise("ValidationError")
              /\ last.calls = <<>>
              /\ rate_limit = Pre.rate_limit)
        /\ (Len(last.req.text) <= 280 => last.valid)

Wit_C6 ==
    /\ Invoked
    /\ Len(last.req.text) = 281
    /\ ~last.valid
    /\ ~Pre.use_key

(* C7: _arun returns what _run returns for the same arguments, state and    *)
(* collaborator behaviour, after the same collaborator calls and with the   *)
(* same effect on the limiter.                                              *)
Thm_C7 ==
    (Executed /\ last.entry = "_arun") =>
        LET r == Run(Pre, last.req.tweet_id, last.req.text, last.req.env) IN
        /\ last.out = r.out
        /\ last.calls = r.calls
        /\ rate_limit = r.rate_limit

Wit_C7 ==
    /\ Executed
    /\ last.entry = "_arun"
    /\ last.req.tweet_id = "1001"
    /\ Len(last.calls) = 3
    /\ last.out.v \in SuccessStrings

(* C8, as stated: an empty tweet_id never reaches create_tweet as           *)
(* in_reply_to_tweet_id.                                                    *)
Orig_C8 ==
    Invoked =>
        \A i \in 1..Len(last.calls) :
            last.calls[i].op = "create_tweet" =>
                last.calls[i].in_reply_to_tweet_id # ""

(* C8, amended: tweet_id is only required to be a string.  An empty         *)
(* tweet_id passes validation, and create_tweet, when called, gets the      *)
(* request's tweet_id unchanged as in_reply_to_tweet_id, empty or not.      *)
Thm_C8 ==
    Invoked =>
        /\ ((last.req.tweet_id = "" /\ Len(last.req.text) <= 280) => last.valid)
        /\ \A i \in 1..Len(last.calls) :
              last.calls[i].op = "create_tweet" =>
                  last.calls[i].in_reply_to_tweet_id = last.req.tweet_id

Wit_C8 ==
    /\ Executed
    /\ last.req.tweet_id = ""
    /\ \E i \in 1..Len(last.calls) :
          /\ last.calls[i].op = "create_tweet"
          /\ last.calls[i].in_reply_to_tweet_id = ""

(* The response holds an identifier at the data.id path. *)
HasNestedId(resp) ==
    /\ resp.t = "dict"
    /\ "data" \in DOMAIN resp.d
    /\ resp.d["data"].t = "dict"
    /\ "id" \in DOMAIN resp.d["data"].d

ExceptionStrings(msgs) ==
    { u \o "Error posting reply tweet: " \o m : u \in {"", "[@alice] "}, m \in msgs }

(* C9, as stated: every returned response without the nested identifier    *)
(* gives the generic failure string.                                        *)
Orig_C9 ==
    (Returned /\ ~HasNestedId(Response)) =>
        (last.out.k = "ret" /\ last.out.v \in GenericFailureStrings)

(* C9, amended: a returned response without the nested identifier never    *)
(* gives the success string.  It gives the generic failure string when the  *)
(* response is a mapping without a data field, or with a data field that is *)
(* a mapping or list without "id".  When the membership test or the lookup  *)
(* raises (the response or its data field is null or a number, or data is a *)
(* list holding "id"), it gives the exception-message string.               *)
Thm_C9 ==
    (Returned /\ ~HasNestedId(Response)) =>
        /\ last.out.k = "ret"
        /\ last.out.v \notin SuccessStrings
        /\ (Response \in { DictV(EmptyMap),
                           DictV([errors |-> ListV(<<>>)]),
                           DictV([data |-> ListV(<<>>)]),
                           DictV([data |-> DictV([text |-> StrV("hi")])]) } =>
              last.out.v \in GenericFailureStrings)
        /\ (Response \in { NoneV, DictV([data |-> NoneV]) } =>
              last.out.v \in
                ExceptionStrings({"argument of type 'NoneType' is not iterable"}))
        /\ (Response = DictV([data |-> IntV(7)]) =>
              last.out.v \in
                ExceptionStrings({"argument of type 'int' is not iterable"}))
        /\ (Response = DictV([data |-> ListV(<<StrV("id")>>)]) =>
              last.out.v \in
                ExceptionStrings({"list indices must be integers or slices, not str"}))

Wit_C9 ==
    /\ Returned
    /\ Response = DictV([data |-> NoneV])
    /\ last.out =
         Ret("Error posting reply tweet: argument of type 'NoneType' is not iterable")

(* C10: an invocation calls create_tweet at most once; exactly once when it *)
(* is not stopped by the rate limit and get_client hands back a client,     *)
(* and not at all otherwise; the call carries the request's text, the       *)
(* request's tweet_id as in_reply_to_tweet_id and user_auth equal to        *)
(* use_key; the tool's own fields are never changed.                        *)
Thm_C10 ==
    /\ tool = [name |-> "twitter_reply_tweet",
               description |-> "Reply to an existing tweet on Twitter",
               args_schema |-> "TwitterReplyTweetInput"]
    /\ Invoked =>
        /\ CountOf("create_tweet") <= 1
        /\ (CountOf("create_tweet") = 1 <=>
              /\ last.valid
              /\ ~ShortCircuitedByRateLimit
              /\ last.req.env.client = Ret(ClientV(TRUE)))
        /\ \A i \in 1..Len(last.calls) :
              last.calls[i].op = "create_tweet" =>
                  last.calls[i] =
                      [op |-> "create_tweet", text |-> last.req.text,
                       user_auth |-> Pre.use_key,
                       in_reply_to_tweet_id |-> last.req.tweet_id]

Wit_C10 ==
    /\ Executed
    /\ CountOf("create_tweet") = 1
    /\ last.req.env.create = Raise("timeout")
    /\ ~Pre.use_key
    /\ last.calls[3].user_auth = FALSE

====
